---- MODULE Spec2Model ----
(***************************************************************************)
(* Marketing Data Aggregator (src/aggregator.py).                          *)
(*                                                                         *)
(* A single-shot batch pipeline: fetch two tables, strip the virtual card  *)
(* prefix, filter the authentication logs by merchant, join transactions   *)
(* to logs by two keys, deduplicate, find the divergent logs, export.      *)
(*                                                                         *)
(* Text is modelled as a sequence of one-character strings, so that        *)
(* slicing, substring search, suffixing and lexical comparison are         *)
(* computed the way pandas computes them.  A DataFrame is a record         *)
(* [cols |-> set of column names, rows |-> sequence of rows], a row being  *)
(* a function from the column names to the cell values.                    *)
(***************************************************************************)
EXTENDS Integers, Sequences, FiniteSets, TLC

(***************************************************************************)
(* Bounds of the model.                                                    *)
(***************************************************************************)
MaxTx == 2
MaxLogs == 2

(***************************************************************************)
(* Cell values that are not text.                                          *)
(***************************************************************************)
None == <<"None">>
NaN == <<"NaN">>

(***************************************************************************)
(* Column names, as the queries of DatabaseConfig.CONNECTIONS alias them.  *)
(***************************************************************************)
num_cpf == <<"n","u","m","_","c","p","f">>
numcartao == <<"n","u","m","c","a","r","t","a","o">>
data_transa == <<"d","a","t","a","_","t","r","a","n","s","a">>
hora_transa == <<"h","o","r","a","_","t","r","a","n","s","a">>
des_cnpj_reduzido == <<"d","e","s","_","c","n","p","j","_","r","e","d","u","z","i","d","o">>
num_cartao_virtual == <<"n","u","m","_","c","a","r","t","a","o","_","v","i","r","t","u","a","l">>
vlr_total == <<"v","l","r","_","t","o","t","a","l">>
num_cartao == <<"n","u","m","_","c","a","r","t","a","o">>
data == <<"d","a","t","a">>
hora == <<"h","o","r","a">>
cod_resposta == <<"c","o","d","_","r","e","s","p","o","s","t","a">>
des_log == <<"d","e","s","_","l","o","g">>
des_linha_recebimento == <<"d","e","s","_","l","i","n","h","a","_","r","e","c","e","b","i","m","e","n","t","o">>

TransactionColumns ==
    {num_cpf, numcartao, data_transa, hora_transa, des_cnpj_reduzido,
     num_cartao_virtual, vlr_total}

AuthLogColumns ==
    {num_cartao, data, hora, cod_resposta, des_log, des_linha_recebimento}

(***************************************************************************)
(* Text helpers.                                                           *)
(***************************************************************************)
\* s[start:] of Python, start counted from 0.
Slice(s, start) == SubSeq(s, start + 1, Len(s))

\* `sub in s` of Python: sub occurs in s as a contiguous run.
Contains(s, sub) ==
    \E i \in 0..(Len(s) - Len(sub)) :
        \A k \in 1..Len(sub) : s[i + k] = sub[k]

\* re.search(pat, s) for patterns made of literal characters and the
\* metacharacter "." (any character); no other metacharacter is modelled.
RegexSearch(s, pat) ==
    \E i \in 0..(Len(s) - Len(pat)) :
        \A k \in 1..Len(pat) : pat[k] = "." \/ s[i + k] = pat[k]

\* Code point order of the characters that occur in dates and times.
Ord(c) ==
    CASE c = "/" -> 47
      [] c = "0" -> 48 [] c = "1" -> 49 [] c = "2" -> 50 [] c = "3" -> 51
      [] c = "4" -> 52 [] c = "5" -> 53 [] c = "6" -> 54 [] c = "7" -> 55
      [] c = "8" -> 56 [] c = "9" -> 57
      [] c = ":" -> 58

\* Python's < on str: lexicographic by code point.
RECURSIVE StrLess(_, _)
StrLess(a, b) ==
    IF b = <<>> THEN FALSE
    ELSE IF a = <<>> THEN TRUE
    ELSE IF Ord(Head(a)) # Ord(Head(b)) THEN Ord(Head(a)) < Ord(Head(b))
    ELSE StrLess(Tail(a), Tail(b))

Digit(n) ==
    CASE n = 0 -> "0" [] n = 1 -> "1" [] n = 2 -> "2" [] n = 3 -> "3"
      [] n = 4 -> "4" [] n = 5 -> "5" [] n = 6 -> "6" [] n = 7 -> "7"
      [] n = 8 -> "8" [] n = 9 -> "9"

DigitValue(c) == Ord(c) - 48

\* to_char(l.log_date, 'DD/MM/YYYY') of the auth_logs query.
ToCharDate(day) ==
    << Digit(day.d \div 10), Digit(day.d % 10), "/",
       Digit(day.m \div 10), Digit(day.m % 10), "/",
       Digit(day.y \div 1000), Digit((day.y \div 100) % 10),
       Digit((day.y \div 10) % 10), Digit(day.y % 10) >>

\* to_char(l.log_time::time, 'HH24:MI:SS') of the auth_logs query.
ToCharTime(t) ==
    << Digit(t.h \div 10), Digit(t.h % 10), ":",
       Digit(t.mi \div 10), Digit(t.mi % 10), ":",
       Digit(t.s \div 10), Digit(t.s % 10) >>

\* astype(str) of pandas on an object cell.
AsStr(v) == IF v = None THEN <<"N","o","n","e">> ELSE v

(***************************************************************************)
(* DataFrame operations of pandas used by the pipeline.                    *)
(***************************************************************************)
DataFrame(cols, rows) == [cols |-> cols, rows |-> rows]

EmptyFrame == DataFrame({}, <<>>)

RowSet(df) == {df.rows[i] : i \in 1..Len(df.rows)}

\* df.rename(columns={old: new})
Rename(df, old, new) ==
    LET NewName(c) == IF c = old THEN new ELSE c
        OldName(c) == IF c = new /\ old \in df.cols THEN old ELSE c
        cols == {NewName(c) : c \in df.cols}
    IN  DataFrame(cols,
                  [i \in 1..Len(df.rows) |->
                      [c \in cols |-> df.rows[i][OldName(c)]]])

\* One row of pd.merge: the left row, then the right row's columns, those
\* whose name also occurs on the left renamed with the right suffix.
MergeRow(lrow, rrow, lcols, rcols, shared, suffix) ==
    LET RName(c) == IF c \in lcols /\ c \notin shared THEN c \o suffix ELSE c
        rnamed == {RName(c) : c \in rcols}
        Source(c) == CHOOSE r \in rcols : RName(r) = c
    IN  [c \in lcols \cup rnamed |->
            IF c \in lcols THEN lrow[c] ELSE rrow[Source(c)]]

\* The rows pd.merge(how='inner') yields for the left rows in order, each
\* paired with the right rows of equal key in the right table's order.
RECURSIVE InnerJoinRows(_, _, _, _, _, _, _, _)
InnerJoinRows(lrows, rrows, left_on, right_on, lcols, rcols, shared, suffix) ==
    IF lrows = <<>> THEN <<>>
    ELSE LET l == Head(lrows)
             matched == SelectSeq(rrows, LAMBDA r : r[right_on] = l[left_on])
         IN  [i \in 1..Len(matched) |->
                 MergeRow(l, matched[i], lcols, rcols, shared, suffix)]
             \o InnerJoinRows(Tail(lrows), rrows, left_on, right_on,
                              lcols, rcols, shared, suffix)

\* pd.merge(left, right, left_on=, right_on=, how='inner', suffixes=('', suffix));
\* on=key is left_on = right_on = key, and the key is then one shared column.
Merge(left, right, left_on, right_on, suffix) ==
    LET shared == IF left_on = right_on THEN {left_on} ELSE {}
        RName(c) == IF c \in left.cols /\ c \notin shared THEN c \o suffix ELSE c
    IN  DataFrame(left.cols \cup {RName(c) : c \in right.cols},
                  InnerJoinRows(left.rows, right.rows, left_on, right_on,
                                left.cols, right.cols, shared, suffix))

\* pd.concat([a, b], ignore_index=True): rows of a, then rows of b, over the
\* union of the columns, a missing cell being NaN.
Concat(a, b) ==
    LET cols == a.cols \cup b.cols
        Fill(row) == [c \in cols |-> IF c \in DOMAIN row THEN row[c] ELSE NaN]
        rows == a.rows \o b.rows
    IN  DataFrame(cols, [i \in 1..Len(rows) |-> Fill(rows[i])])

KeyOf(row, subset) == [c \in subset |-> row[c]]

\* df.drop_duplicates(subset=subset): keep='first' is the default.
RECURSIVE DedupRows(_, _, _)
DedupRows(rows, subset, seen) ==
    IF rows = <<>> THEN <<>>
    ELSE LET k == KeyOf(Head(rows), subset)
         IN  IF k \in seen
             THEN DedupRows(Tail(rows), subset, seen)
             ELSE <<Head(rows)>> \o DedupRows(Tail(rows), subset, seen \cup {k})

\* drop_duplicates() with the subset left out: whole rows are compared.
DropDuplicatesWholeRow(df, subset) ==
    DataFrame(df.cols, DedupRows(df.rows, df.cols, {}))

DropDuplicates(df, subset) == DataFrame(df.cols, DedupRows(df.rows, subset, {}))

\* Order of two cells of one column: the log's data and hora are text and
\* compare as str; the transaction's date and time compare as date and time.
CellLess(col, a, b) ==
    IF col \in {data, hora} THEN StrLess(a, b) ELSE a < b

\* Order of two rows under sort_values(by=by): by the columns in turn.
RECURSIVE RowLess(_, _, _)
RowLess(by, a, b) ==
    IF by = <<>> THEN FALSE
    ELSE LET c == Head(by)
         IN  IF a[c] = b[c] THEN RowLess(Tail(by), a, b)
             ELSE CellLess(c, a[c], b[c])

\* Insert row behind every row that is not greater (the sort is stable).
RECURSIVE InsertSorted(_, _, _)
InsertSorted(sorted, row, by) ==
    IF sorted = <<>> THEN <<row>>
    ELSE IF RowLess(by, row, Head(sorted))
         THEN <<row>> \o sorted
         ELSE <<Head(sorted)>> \o InsertSorted(Tail(sorted), row, by)

RECURSIVE SortRows(_, _, _)
SortRows(rows, by, acc) ==
    IF rows = <<>> THEN acc
    ELSE SortRows(Tail(rows), by, InsertSorted(acc, Head(rows), by))

\* df.sort_values(by=by, ascending=True)
SortValues(df, by) == DataFrame(df.cols, SortRows(df.rows, by, <<>>))

\* df.drop(columns=drop, errors='ignore')
DropColumns(df, drop) ==
    LET cols == df.cols \ drop
    IN  DataFrame(cols,
                  [i \in 1..Len(df.rows) |-> [c \in cols |-> df.rows[i][c]]])

(***************************************************************************)
(* The pipeline's functions.                                               *)
(***************************************************************************)
\* merchant_id of main and the default of filter_by_merchant.
MERCHANT_ID == <<"0","4","2","2","2","7","6","2","3","0","0","0","1","4","1">>

\* process_virtual_card_numbers: the column as text, without its first 6
\* characters.
process_virtual_card_numbers(df) ==
    DataFrame(df.cols,
              [i \in 1..Len(df.rows) |->
                  [df.rows[i] EXCEPT
                      ![num_cartao_virtual] = Slice(AsStr(@), 6)]])

\* filter_by_merchant: Series.str.contains(merchant_id, na=False); the
\* pattern is searched as a regular expression (regex=True is the default),
\* and a cell that is not text counts as no match.
filter_by_merchant(df_logs, merchant) ==
    DataFrame(df_logs.cols,
              SelectSeq(df_logs.rows,
                        LAMBDA r : /\ r[des_linha_recebimento] # None
                                   /\ RegexSearch(r[des_linha_recebimento],
                                                  merchant)))

unique_transaction_cols ==
    {num_cpf, num_cartao, num_cartao_virtual, vlr_total, data_transa,
     hora_transa}

suffix_log == <<"_","l","o","g">>
suffix_log_virtual == <<"_","l","o","g","_","v","i","r","t","u","a","l">>

\* Strategy 1 of merge_transactions_with_logs: match by physical card number.
merge_by_card(df_tx, df_logs) ==
    Merge(Rename(df_tx, numcartao, num_cartao), df_logs,
          num_cartao, num_cartao, suffix_log)

\* Strategy 2 joined on the physical card number, as Strategy 1 is.
merge_by_virtual_on_card(df_tx, df_logs) ==
    Merge(Rename(df_tx, numcartao, num_cartao), df_logs,
          num_cartao, num_cartao, suffix_log_virtual)

\* Strategy 2 of merge_transactions_with_logs: match by virtual card number.
merge_by_virtual(df_tx, df_logs) ==
    Merge(Rename(df_tx, numcartao, num_cartao), df_logs,
          num_cartao_virtual, num_cartao, suffix_log_virtual)

\* The two join results concatenated in the other order.
combine_virtual_first(by_card, by_virtual) == Concat(by_virtual, by_card)

\* pd.concat([df_by_card, df_by_virtual], ignore_index=True)
combine(by_card, by_virtual) == Concat(by_card, by_virtual)

\* [col for col in df_combined.columns if '_log' in col]
columns_to_drop(df) == {c \in df.cols : Contains(c, suffix_log)}

\* merge_transactions_with_logs from the two join results on: concatenate,
\* drop duplicates, sort, drop the columns of the merge.
merge_transactions_with_logs(by_card, by_virtual) ==
    LET df_combined == combine(by_card, by_virtual)
        deduped == DropDuplicates(df_combined, unique_transaction_cols)
        sorted == SortValues(deduped, <<data_transa, hora_transa>>)
    IN  DropColumns(sorted, columns_to_drop(sorted))

\* The columns merge_transactions_with_logs looks up by name.
merge_columns_present(df_tx, df_logs) ==
    /\ num_cartao \in df_logs.cols
    /\ unique_transaction_cols \subseteq Rename(df_tx, numcartao, num_cartao).cols

\* identify_divergences with the mask not negated.
identify_divergences_not_negated(df_logs, final) ==
    LET final_cards == {final.rows[i][num_cartao] : i \in 1..Len(final.rows)}
        divergent_logs ==
            DataFrame(df_logs.cols,
                      SelectSeq(df_logs.rows,
                                LAMBDA r : r[num_cartao] \in final_cards))
    IN  SortValues(divergent_logs, <<data, hora>>)

\* identify_divergences: the logs whose num_cartao is not a num_cartao of the
\* final table, sorted by (data, hora).
identify_divergences(df_logs, final) ==
    LET final_cards == {final.rows[i][num_cartao] : i \in 1..Len(final.rows)}
        divergent_logs ==
            DataFrame(df_logs.cols,
                      SelectSeq(df_logs.rows,
                                LAMBDA r : r[num_cartao] \notin final_cards))
    IN  SortValues(divergent_logs, <<data, hora>>)

(***************************************************************************)
(* What the Record Source can deliver.                                     *)
(***************************************************************************)
CardA == <<"A">>
CardX == <<"X">>

\* Raw virtual card numbers: a 6 character prefix before the key, and null.
VirtualCards == {<<"0","0","0","0","0","0","X">>, None}

\* The merchant of the transactions query.
TX_MERCHANT == <<"1","2","3","4","5","6","7","8","0","0","0","1","9","0">>

TxRow(card, virtual) ==
    (num_cpf :> <<"1">>) @@ (numcartao :> card) @@ (data_transa :> 1)
    @@ (hora_transa :> 1000) @@ (des_cnpj_reduzido :> TX_MERCHANT)
    @@ (num_cartao_virtual :> virtual) @@ (vlr_total :> 10)

TxRows == {TxRow(c, v) : c \in {CardA, CardX}, v \in VirtualCards}

\* Days of one lookback window that crosses a month boundary.
LogDays == {[y |-> 2026, m |-> 1, d |-> 31], [y |-> 2026, m |-> 2, d |-> 1]}

\* Raw payloads: of the target merchant, of another merchant, and null.
MerchantLine == <<"<">> \o MERCHANT_ID \o <<">">>
RawLines == {MerchantLine, <<"<">> \o TX_MERCHANT \o <<">">>, None}

LogRow(card, day, raw) ==
    (num_cartao :> card) @@ (data :> ToCharDate(day))
    @@ (hora :> ToCharTime([h |-> 9, mi |-> 59, s |-> 0]))
    @@ (cod_resposta :> <<"0","0">>) @@ (des_log :> <<"O","K">>)
    @@ (des_linha_recebimento :> raw)

\* Logs of the target merchant on either card and day, and one log for each
\* of the other raw payloads.
LogRows ==
    {LogRow(c, d, MerchantLine) : c \in {CardA, CardX}, d \in LogDays}
    \cup {LogRow(CardA, [y |-> 2026, m |-> 1, d |-> 31], r) : r \in RawLines}

SeqsUpTo(S, n) == UNION {[1..k -> S] : k \in 0..n}

\* A query result: rows over the columns the query selects.
Project(rows, cols) == [i \in 1..Len(rows) |-> [c \in cols |-> rows[i][c]]]

\* The connection definitions a run is configured with: for each of the two
\* connections the result name, whether the query is a string, and the
\* columns the query selects.  DatabaseConfig.CONNECTIONS is the first one;
\* the others differ from it in one place.
Connection(var_name, query_is_str, cols) ==
    [var_name |-> var_name, query_is_str |-> query_is_str, cols |-> cols]

CONNECTIONS ==
    << Connection("df_transactions", TRUE, TransactionColumns),
       Connection("df_auth_logs", TRUE, AuthLogColumns) >>

ConnectionConfigs ==
    {CONNECTIONS,
     [CONNECTIONS EXCEPT ![2].query_is_str = FALSE],
     [CONNECTIONS EXCEPT ![1].cols = @ \ {num_cartao_virtual}],
     [CONNECTIONS EXCEPT ![1].cols = @ \ {num_cpf}],
     [CONNECTIONS EXCEPT ![2].cols = @ \ {des_linha_recebimento}],
     [CONNECTIONS EXCEPT ![2].cols = @ \ {hora}]}

\* Merchant identifiers filter_by_merchant is called with: the one of main,
\* and one that holds a "." in place of a digit.
MerchantIds == {MERCHANT_ID, [MERCHANT_ID EXCEPT ![5] = "."]}

(***************************************************************************)
(* State.                                                                  *)
(***************************************************************************)
VARIABLES
    pc,                 \* position of main, or of the single call
    connections_config, \* argument of fetch_data_from_databases
    conn,               \* index of the connection the fetch loop is at
    dataframes,         \* result name -> table object
    df_transactions,    \* main's local after step 2
    merchant_id,        \* main's local, parameter of filter_by_merchant
    df_filtered_logs,   \* main's local after step 3
    df_by_card,         \* local of merge_transactions_with_logs
    df_by_virtual,      \* local of merge_transactions_with_logs
    df_final,           \* main's local after step 4
    df_divergent,       \* main's local after step 5
    failure,            \* what went wrong in the run, "none" if nothing
    exit_code           \* exit status of the process, -1 while it runs

vars ==
    << pc, connections_config, conn, dataframes, df_transactions, merchant_id,
       df_filtered_logs, df_by_card, df_by_virtual, df_final, df_divergent,
       failure, exit_code >>

NoFrames == [n \in {} |-> EmptyFrame]

Init ==
    /\ pc = "fetch"
    /\ connections_config \in ConnectionConfigs
    /\ conn = 1
    /\ dataframes = NoFrames
    /\ df_transactions = EmptyFrame
    /\ merchant_id = None
    /\ df_filtered_logs = EmptyFrame
    /\ df_by_card = EmptyFrame
    /\ df_by_virtual = EmptyFrame
    /\ df_final = EmptyFrame
    /\ df_divergent = EmptyFrame
    /\ failure = "none"
    /\ exit_code = -1

\* sys.exit() without an argument: the process ends with status 0.
Exit(cause) ==
    /\ pc' = "exited"
    /\ failure' = cause
    /\ exit_code' = 0

\* An exception nothing catches: traceback, the process ends with status 1.
Uncaught(cause) ==
    /\ pc' = "exited"
    /\ failure' = cause
    /\ exit_code' = 1

\* The rows a connection's data source can return, within the bounds.
SourceTables(i) ==
    IF i = 1 THEN SeqsUpTo(TxRows, MaxTx) ELSE SeqsUpTo(LogRows, MaxLogs)

\* fetch_data_from_databases, one iteration that loads a table.
FetchLoad ==
    /\ pc = "fetch"
    /\ connections_config[conn].query_is_str
    /\ \E rows \in SourceTables(conn) :
          LET c == connections_config[conn]
          IN  dataframes' =
                  dataframes @@ (c.var_name :> DataFrame(c.cols, Project(rows, c.cols)))
    /\ conn' = conn + 1
    /\ pc' = IF conn = Len(connections_config) THEN "process" ELSE "fetch"
    /\ UNCHANGED << connections_config, df_transactions, merchant_id,
                    df_filtered_logs, df_by_card, df_by_virtual, df_final,
                    df_divergent, failure, exit_code >>

\* fetch_data_from_databases, one iteration whose query is not a string:
\* the ValueError is caught by the except clause, which calls exit().
FetchNonStringQuery ==
    /\ pc = "fetch"
    /\ ~connections_config[conn].query_is_str
    /\ Exit("non_string_query")
    /\ UNCHANGED << connections_config, conn, dataframes, df_transactions,
                    merchant_id, df_filtered_logs, df_by_card, df_by_virtual,
                    df_final, df_divergent >>

\* fetch_data_from_databases, one iteration whose data source cannot be
\* reached or whose query fails: the except clause calls exit().
FetchFails ==
    /\ pc = "fetch"
    /\ connections_config[conn].query_is_str
    /\ \E cause \in {"unreachable", "query_failed"} : Exit(cause)
    /\ UNCHANGED << connections_config, conn, dataframes, df_transactions,
                    merchant_id, df_filtered_logs, df_by_card, df_by_virtual,
                    df_final, df_divergent >>

\* main step 2: process_virtual_card_numbers assigns the column of the table
\* object it is given and returns that same object.
ProcessVirtual ==
    /\ pc = "process"
    /\ num_cartao_virtual \in dataframes["df_transactions"].cols
    /\ LET processed == process_virtual_card_numbers(dataframes["df_transactions"])
       IN  /\ dataframes' = [dataframes EXCEPT !["df_transactions"] = processed]
           /\ df_transactions' = processed
    /\ pc' = "filter"
    /\ UNCHANGED << connections_config, conn, merchant_id, df_filtered_logs,
                    df_by_card, df_by_virtual, df_final, df_divergent, failure,
                    exit_code >>

\* main step 2 on a table without the column: KeyError.
ProcessVirtualKeyError ==
    /\ pc = "process"
    /\ num_cartao_virtual \notin dataframes["df_transactions"].cols
    /\ Uncaught("missing_column")
    /\ UNCHANGED << connections_config, conn, dataframes, df_transactions,
                    merchant_id, df_filtered_logs, df_by_card, df_by_virtual,
                    df_final, df_divergent >>

\* main step 3: filter_by_merchant with main's merchant_id.
Filter ==
    /\ pc = "filter"
    /\ des_linha_recebimento \in dataframes["df_auth_logs"].cols
    /\ merchant_id' = MERCHANT_ID
    /\ df_filtered_logs' = filter_by_merchant(dataframes["df_auth_logs"], MERCHANT_ID)
    /\ pc' = "merge"
    /\ UNCHANGED << connections_config, conn, dataframes, df_transactions,
                    df_by_card, df_by_virtual, df_final, df_divergent, failure,
                    exit_code >>

\* main step 3 on a table without the column: KeyError.
FilterKeyError ==
    /\ pc = "filter"
    /\ des_linha_recebimento \notin dataframes["df_auth_logs"].cols
    /\ merchant_id' = MERCHANT_ID
    /\ Uncaught("missing_column")
    /\ UNCHANGED << connections_config, conn, dataframes, df_transactions,
                    df_filtered_logs, df_by_card, df_by_virtual, df_final,
                    df_divergent >>

\* main step 4: merge_transactions_with_logs.
MergeStep ==
    /\ pc = "merge"
    /\ merge_columns_present(df_transactions, df_filtered_logs)
    /\ LET by_card == merge_by_card(df_transactions, df_filtered_logs)
           by_virtual == merge_by_virtual(df_transactions, df_filtered_logs)
       IN  /\ df_by_card' = by_card
           /\ df_by_virtual' = by_virtual
           /\ df_final' = merge_transactions_with_logs(by_card, by_virtual)
    /\ pc' = "diverge"
    /\ UNCHANGED << connections_config, conn, dataframes, df_transactions,
                    merchant_id, df_filtered_logs, df_divergent, failure,
                    exit_code >>

\* main step 4 on tables without a column the merge names: KeyError.
MergeKeyError ==
    /\ pc = "merge"
    /\ ~merge_columns_present(df_transactions, df_filtered_logs)
    /\ Uncaught("missing_column")
    /\ UNCHANGED << connections_config, conn, dataframes, df_transactions,
                    merchant_id, df_filtered_logs, df_by_card, df_by_virtual,
                    df_final, df_divergent >>

\* main step 5: identify_divergences.
Diverge ==
    /\ pc = "diverge"
    /\ {data, hora} \subseteq df_filtered_logs.cols
    /\ df_divergent' = identify_divergences(df_filtered_logs, df_final)
    /\ pc' = "export"
    /\ UNCHANGED << connections_config, conn, dataframes, df_transactions,
                    merchant_id, df_filtered_logs, df_by_card, df_by_virtual,
                    df_final, failure, exit_code >>

\* main step 5 on logs without a sort column: KeyError.
DivergeKeyError ==
    /\ pc = "diverge"
    /\ ~({data, hora} \subseteq df_filtered_logs.cols)
    /\ Uncaught("missing_column")
    /\ UNCHANGED << connections_config, conn, dataframes, df_transactions,
                    merchant_id, df_filtered_logs, df_by_card, df_by_virtual,
                    df_final, df_divergent >>

\* main step 6, the file is written: main prints its totals and returns.
ExportWritten ==
    /\ pc = "export"
    /\ pc' = "done"
    /\ exit_code' = 0
    /\ UNCHANGED << connections_config, conn, dataframes, df_transactions,
                    merchant_id, df_filtered_logs, df_by_card, df_by_virtual,
                    df_final, df_divergent, failure >>

\* main step 6, the file cannot be written: the except clause calls exit().
ExportFails ==
    /\ pc = "export"
    /\ Exit("write_failed")
    /\ UNCHANGED << connections_config, conn, dataframes, df_transactions,
                    merchant_id, df_filtered_logs, df_by_card, df_by_virtual,
                    df_final, df_divergent >>

Next ==
    \/ FetchLoad
    \/ FetchNonStringQuery
    \/ FetchFails
    \/ ProcessVirtual
    \/ ProcessVirtualKeyError
    \/ Filter
    \/ FilterKeyError
    \/ MergeStep
    \/ MergeKeyError
    \/ Diverge
    \/ DivergeKeyError
    \/ ExportWritten
    \/ ExportFails

Spec == Init /\ [][Next]_vars

(***************************************************************************)
(* filter_by_merchant called on its own, with any table and any of the     *)
(* merchant identifiers.                                                   *)
(***************************************************************************)
InitFilter ==
    /\ pc = "call_filter"
    /\ connections_config = CONNECTIONS
    /\ conn = Len(CONNECTIONS) + 1
    /\ \E rows \in SeqsUpTo(LogRows, MaxLogs) :
          dataframes = ("df_auth_logs" :> DataFrame(AuthLogColumns, rows))
    /\ df_transactions = EmptyFrame
    /\ merchant_id \in MerchantIds
    /\ df_filtered_logs = EmptyFrame
    /\ df_by_card = EmptyFrame
    /\ df_by_virtual = EmptyFrame
    /\ df_final = EmptyFrame
    /\ df_divergent = EmptyFrame
    /\ failure = "none"
    /\ exit_code = -1

FilterCall ==
    /\ pc = "call_filter"
    /\ df_filtered_logs' = filter_by_merchant(dataframes["df_auth_logs"], merchant_id)
    /\ pc' = "returned"
    /\ UNCHANGED << connections_config, conn, dataframes, df_transactions,
                    merchant_id, df_by_card, df_by_virtual, df_final,
                    df_divergent, failure, exit_code >>

NextFilter == FilterCall

SpecFilter == InitFilter /\ [][NextFilter]_vars

(***************************************************************************)
(* Vocabulary of the properties.                                           *)
(***************************************************************************)
\* merge_transactions_with_logs has returned.
Merged ==
    \/ pc \in {"diverge", "export", "done"}
    \/ pc = "exited" /\ failure = "write_failed"

\* identify_divergences has returned.
Diverged ==
    \/ pc \in {"export", "done"}
    \/ pc = "exited" /\ failure = "write_failed"

\* The AuthLog row a row of Join A was made from.
LogOfCardRow(r) == [c \in AuthLogColumns |-> r[c]]

\* The AuthLog row a row of Join B was made from.
LogOfVirtualRow(r) ==
    [c \in AuthLogColumns |->
        IF c = num_cartao THEN r[num_cartao \o suffix_log_virtual] ELSE r[c]]

LogsJoinedByCard == {LogOfCardRow(r) : r \in RowSet(df_by_card)}
LogsJoinedByVirtual == {LogOfVirtualRow(r) : r \in RowSet(df_by_virtual)}

\* The deduplication key of a row of the joins or of the final table.
TxKey(r) == KeyOf(r, unique_transaction_cols)

\* The deduplication key of an input transaction.
InputKey(t) ==
    [c \in unique_transaction_cols |->
        IF c = num_cartao THEN t[numcartao] ELSE t[c]]

\* Transaction t has a filtered log on its card number or on its virtual key.
HasMatch(t) ==
    \E l \in RowSet(df_filtered_logs) :
        \/ l[num_cartao] = t[numcartao]
        \/ l[num_cartao] = t[num_cartao_virtual]

(***************************************************************************)
(* C1: an AuthLog row that Join A or Join B joined to a transaction is     *)
(* never returned by identify_divergences.                                 *)
(***************************************************************************)
C1_JoinedLogNeverDivergent ==
    Diverged =>
        \A l \in LogsJoinedByCard \cup LogsJoinedByVirtual :
            l \notin RowSet(df_divergent)

(***************************************************************************)
(* C2: the output of merge_transactions_with_logs holds no two rows with   *)
(* the same (cpf, card, virtual card, amount, date, time) tuple.           *)
(***************************************************************************)
C2_NoDuplicateKeys ==
    Merged =>
        \A i, j \in 1..Len(df_final.rows) :
            i # j => TxKey(df_final.rows[i]) # TxKey(df_final.rows[j])

\* Two logs share a card number and one transaction is matched by both
\* joins: three joined rows, one consolidated row.
C2_Witness ==
    /\ Merged
    /\ Len(df_transactions.rows) = 1
    /\ Len(df_by_card.rows) = 2
    /\ Len(df_by_virtual.rows) >= 1
    /\ Len(df_final.rows) = 1

(***************************************************************************)
(* C3: the key tuples of the output of merge_transactions_with_logs are    *)
(* exactly the key tuples of the input transactions that have a filtered   *)
(* log on their card number or on their normalized virtual key.            *)
(***************************************************************************)
C3_OutputKeysAreMatchedKeys ==
    Merged =>
        {TxKey(r) : r \in RowSet(df_final)}
            = {InputKey(t) : t \in {u \in RowSet(df_transactions) : HasMatch(u)}}

\* One transaction is matched, by its virtual key only, and another has no
\* match by either key.
C3_Witness ==
    /\ Merged
    /\ Len(df_final.rows) = 1
    /\ df_by_card.rows = <<>>
    /\ \E t \in RowSet(df_transactions) : ~HasMatch(t)

(***************************************************************************)
(* C4: the divergent rows together with the AuthLog rows joined into the   *)
(* consolidated table are exactly the filtered AuthLogs.                   *)
(***************************************************************************)
C4_DivergentAndMatchedCoverFiltered ==
    Diverged =>
        RowSet(df_divergent) \cup LogsJoinedByCard \cup LogsJoinedByVirtual
            = RowSet(df_filtered_logs)

\* Some filtered log is joined and not divergent, another is divergent and
\* not joined.
C4_Witness ==
    /\ Diverged
    /\ \E l \in LogsJoinedByCard : l \notin RowSet(df_divergent)
    /\ \E l \in RowSet(df_divergent) :
          l \notin LogsJoinedByCard \cup LogsJoinedByVirtual

(***************************************************************************)
(* C5: process_virtual_card_numbers does not mutate its input: the table   *)
(* passed in holds the same values after the call as before it.            *)
(***************************************************************************)
C5_InputNotMutated ==
    [][(pc = "process" /\ pc' = "filter")
          => dataframes'["df_transactions"] = dataframes["df_transactions"]]_vars

(***************************************************************************)
(* C6: every run that fails ends with a non-zero exit status.              *)
(***************************************************************************)
C6_FailureExitsNonZero ==
    (pc = "exited" /\ failure # "none") => exit_code # 0

\* The names the joins give to log columns that collide with a transaction
\* column.
SuffixedCollisions ==
    LET tx_cols == Rename(df_transactions, numcartao, num_cartao).cols
    IN  {c \o sfx : c \in tx_cols \cap df_filtered_logs.cols,
                    sfx \in {suffix_log, suffix_log_virtual}}

(***************************************************************************)
(* C7: merge_transactions_with_logs removes from the joined result only    *)
(* the log-side columns that collided with a transaction-side column name  *)
(* and were suffixed by the join.                                          *)
(***************************************************************************)
C7_OnlySuffixedColumnsDropped ==
    Merged =>
        df_final.cols = (df_by_card.cols \cup df_by_virtual.cols) \ SuffixedCollisions

(***************************************************************************)
(* C8: filter_by_merchant returns rows of its input; every retained row's  *)
(* raw_line contains the merchant identifier as a substring, and every     *)
(* excluded row has a null raw_line or does not contain the identifier.    *)
(***************************************************************************)
C8_FilterIsSubstringMatch ==
    pc = "returned" =>
        LET input == RowSet(dataframes["df_auth_logs"])
            retained == RowSet(df_filtered_logs)
            HasMerchant(r) ==
                /\ r[des_linha_recebimento] # None
                /\ Contains(r[des_linha_recebimento], merchant_id)
        IN  /\ retained \subseteq input
            /\ \A r \in retained : HasMerchant(r)
            /\ \A r \in input \ retained : ~HasMerchant(r)

(***************************************************************************)
(* C9: when a key tuple is produced by Join A and by Join B, the row kept  *)
(* is the first Join A row of that key: its log-side fields are those of a *)
(* log matched on the physical card number.                                *)
(***************************************************************************)
C9_CardMatchTakesPrecedence ==
    Merged =>
        \A i \in 1..Len(df_final.rows) :
            LET r == df_final.rows[i]
                SameKey(x) == TxKey(x) = TxKey(r)
                from_card == SelectSeq(df_by_card.rows, SameKey)
                from_virtual == SelectSeq(df_by_virtual.rows, SameKey)
            IN  (from_card # <<>> /\ from_virtual # <<>>)
                    => r = [c \in df_final.cols |-> from_card[1][c]]

\* A key tuple is produced by both joins, from two logs that differ in
\* their date, and the row kept carries the date of the card-matched log.
C9_Witness ==
    /\ Merged
    /\ \E a \in RowSet(df_by_card), b \in RowSet(df_by_virtual) :
          /\ TxKey(a) = TxKey(b)
          /\ a[data] # b[data]
          /\ \E r \in RowSet(df_final) : TxKey(r) = TxKey(a) /\ r[data] = a[data]

\* The day a DD/MM/YYYY text names, as a number that grows with the calendar.
DayNumber(text) ==
    LET N(i) == DigitValue(text[i])
    IN  (N(7) * 1000 + N(8) * 100 + N(9) * 10 + N(10)) * 10000
        + (N(4) * 10 + N(5)) * 100 + (N(1) * 10 + N(2))

\* The second of the day an HH24:MI:SS text names.
SecondOfDay(text) ==
    LET N(i) == DigitValue(text[i])
    IN  (N(1) * 10 + N(2)) * 3600 + (N(4) * 10 + N(5)) * 60 + (N(7) * 10 + N(8))

ChronologicallyBefore(a, b) ==
    \/ DayNumber(a[data]) < DayNumber(b[data])
    \/ /\ DayNumber(a[data]) = DayNumber(b[data])
       /\ SecondOfDay(a[hora]) < SecondOfDay(b[hora])

(***************************************************************************)
(* C10: the output of identify_divergences is in chronological order of    *)
(* the logs' (date, time).                                                 *)
(***************************************************************************)
C10_DivergentChronological ==
    Diverged =>
        \A i, j \in 1..Len(df_divergent.rows) :
            i < j => ~ChronologicallyBefore(df_divergent.rows[j], df_divergent.rows[i])

====
